---------------------------- MODULE Spec2Model ----------------------------
(***************************************************************************)
(* Model of src/server/api/main.rs: the /transcript request handler (yt),  *)
(* the identifier validator, the URL extractor and the output formatters.  *)
(*                                                                         *)
(* A Rust string is modelled as a sequence of characters; a character is a *)
(* one-character TLA+ string, except the token "U+00E9", which stands for  *)
(* the single non-ASCII character e-acute (two bytes in UTF-8).            *)
(***************************************************************************)
EXTENDS Integers, Sequences, FiniteSets, TLC

VARIABLES
    payload,      \* YTRequest: [video_id, video_url], each an Option<String>
    has_proxy,    \* whether PROXY_URL is set in the environment
    pc,           \* position of the handler between its early returns / awaits
    video_id,     \* the handler's local video_id (an Option until resolved)
    api,          \* whether YouTubeTranscriptApi::new returned a client
    transcript,   \* Option: the parts returned by fetch_transcript
    details,      \* Option: the record returned by fetch_video_details
    response,     \* Option: what the handler returned
    calls,        \* history: the calls made to the transcript provider, in order
    input,        \* argument of the pure function under evaluation
    output,       \* Option: its result
    shape         \* how the argument was built (the parts of a generated URL)

vars == <<payload, has_proxy, pc, video_id, api, transcript, details, response,
          calls, input, output, shape>>

handlerVars == <<payload, has_proxy, pc, video_id, api, transcript, details,
                 response, calls>>

fnVars == <<input, output, shape>>

-----------------------------------------------------------------------------
(* Option and Result *)

None == [some |-> FALSE]

Some(x) == [some |-> TRUE, val |-> x]

Ok(x) == [ok |-> TRUE, val |-> x]

Err(e) == [ok |-> FALSE, err |-> e]

-----------------------------------------------------------------------------
(* Characters and strings *)

NonAscii == {"U+00E9"}

\* number of bytes of the UTF-8 encoding of a character
Utf8Len(c) == IF c \in NonAscii THEN 2 ELSE 1

RECURSIVE ByteLen(_)
\* str::len(): the length of a string in BYTES
ByteLen(s) == IF s = <<>> THEN 0 ELSE Utf8Len(Head(s)) + ByteLen(Tail(s))

Lower == {"a","b","c","d","e","f","g","h","i","j","k","l","m",
          "n","o","p","q","r","s","t","u","v","w","x","y","z"}

Upper == {"A","B","C","D","E","F","G","H","I","J","K","L","M",
          "N","O","P","Q","R","S","T","U","V","W","X","Y","Z"}

Digit == {"0","1","2","3","4","5","6","7","8","9"}

\* char::is_ascii_alphanumeric
is_ascii_alphanumeric(c) == c \in Lower \cup Upper \cup Digit

\* char::is_whitespace, on the characters the model uses
is_whitespace(c) == c \in {" ", "\t", "\n"}

\* s[i..] (1-based, i may be Len(s)+1)
Drop(s, i) == SubSeq(s, i, Len(s))

\* does pat occur in s at position i
MatchAt(s, pat, i) ==
    /\ i >= 1
    /\ i + Len(pat) - 1 <= Len(s)
    /\ SubSeq(s, i, i + Len(pat) - 1) = pat

\* position of the first occurrence of pat in s, 0 when there is none
Find(s, pat) ==
    LET hits == {i \in 1..(Len(s) + 1) : MatchAt(s, pat, i)}
    IN  IF hits = {} THEN 0 ELSE CHOOSE i \in hits : \A j \in hits : i <= j

\* str::contains
Contains(s, pat) == Find(s, pat) # 0

\* str::trim
Trim(s) ==
    LET keep == {i \in 1..Len(s) : ~is_whitespace(s[i])}
    IN  IF keep = {} THEN <<>>
        ELSE LET lo == CHOOSE i \in keep : \A j \in keep : i <= j
                 hi == CHOOSE i \in keep : \A j \in keep : i >= j
             IN  SubSeq(s, lo, hi)

\* s.split(pat).next(): the piece before the first occurrence (always Some)
SplitFirst(s, pat) ==
    LET i == Find(s, pat)
    IN  IF i = 0 THEN s ELSE SubSeq(s, 1, i - 1)

\* s.split(pat).nth(1): the piece between the first and the second
\* (non-overlapping) occurrence of pat; None when pat does not occur
SplitSecond(s, pat) ==
    LET i == Find(s, pat)
    IN  IF i = 0 THEN None
        ELSE Some(SplitFirst(Drop(s, i + Len(pat)), pat))

RECURSIVE Replace(_, _)
\* s.replace(pat, ""): one left-to-right pass over the non-overlapping matches
Replace(s, pat) ==
    LET i == Find(s, pat)
    IN  IF i = 0 THEN s
        ELSE SubSeq(s, 1, i - 1) \o Replace(Drop(s, i + Len(pat)), pat)

-----------------------------------------------------------------------------
(* validate_video_id *)

IdLen == 11

LengthCode == "video_id must be exactly 11 characters"

CharsetCode == "invalid_characters"

CharsetText == "video_id contains invalid characters: "

\* the filter of line 32
IsInvalidChar(c) == ~is_ascii_alphanumeric(c) /\ c # "-" /\ c # "_"

\* ValidationError::new(code), optionally with a message; a formatted
\* message is kept as [text, args]: its literal text and its arguments
ValidationError(code, message) == [code |-> code, message |-> message]

\* mutant: the length test alone
validate_video_id_NoCharset(id) ==
    IF ByteLen(id) # IdLen
    THEN Err(ValidationError(LengthCode, None))
    ELSE Ok(<<>>)

validate_video_id(id) ==
    IF ByteLen(id) # IdLen
    THEN Err(ValidationError(LengthCode, None))
    ELSE LET invalid_chars == SelectSeq(id, IsInvalidChar)
         IN  IF invalid_chars # <<>>
             THEN Err(ValidationError(CharsetCode,
                        Some([text |-> CharsetText, args |-> invalid_chars])))
             ELSE Ok(<<>>)

-----------------------------------------------------------------------------
(* Inputs of the validator: strings of "a" with a few characters replaced *)

MaxExtra == 1

MaxSubst == 2

Base == "a"

SubstChars == {"Z", "7", "-", "_", "!", "U+00E9"}

\* the string of n characters Base with the positions ps replaced as g says
Substituted(n, ps, g) == [i \in 1..n |-> IF i \in ps THEN g[i] ELSE Base]

HandlerIdle ==
    /\ payload = [video_id |-> None, video_url |-> None]
    /\ has_proxy = FALSE
    /\ pc = "idle"
    /\ video_id = None
    /\ api = FALSE
    /\ transcript = None
    /\ details = None
    /\ response = None
    /\ calls = <<>>

InitValidate ==
    /\ HandlerIdle
    /\ \E n \in 0..(IdLen + MaxExtra) :
         \E ps \in {q \in SUBSET (1..n) : Cardinality(q) <= MaxSubst} :
           \E g \in [ps -> SubstChars] : input = Substituted(n, ps, g)
    /\ output = None
    /\ shape = <<>>

Validate ==
    /\ output = None
    /\ output' = Some(validate_video_id(input))
    /\ UNCHANGED <<handlerVars, input, shape>>

NextValidate == Validate

SpecValidate == InitValidate /\ [][NextValidate]_vars

\* C5 (as stated, length counted in characters): every input of a length
\* other than 11 characters is rejected with the length error, every
\* 11-character input with a character outside [A-Za-z0-9_-] is rejected with
\* the charset error listing the offending characters in scan order, and
\* every other 11-character input is accepted.
C5_Classification ==
    output.some =>
        LET bad == SelectSeq(input, IsInvalidChar)
        IN  /\ Len(input) # IdLen =>
                output.val = Err(ValidationError(LengthCode, None))
            /\ (Len(input) = IdLen /\ bad # <<>>) =>
                output.val = Err(ValidationError(CharsetCode,
                                   Some([text |-> CharsetText, args |-> bad])))
            /\ (Len(input) = IdLen /\ bad = <<>>) => output.val = Ok(<<>>)

-----------------------------------------------------------------------------
(* extract_id_from_url *)

WatchMarker == <<"y","o","u","t","u","b","e",".","c","o","m","/","w","a","t","c","h">>

ShortMarker == <<"y","o","u","t","u",".","b","e","/">>

VParam == <<"v","=">>

Amp == <<"&">>

QMark == <<"?">>

UrlParseCode == "invalid YouTube URL: could not extract valid video ID"

UnsupportedCode == "invalid YouTube URL: must be youtube.com/watch or youtu.be URL"

\* Option::and_then(|s| s.split(sep).next())
UpTo(opt, sep) == IF opt.some THEN Some(SplitFirst(opt.val, sep)) ELSE None

\* lines 83-90: url.split("v=").nth(1).and_then(|s| s.split('&').next())
WatchRule(url) ==
    LET id == UpTo(SplitSecond(url, VParam), Amp)
    IN  IF id.some /\ validate_video_id(id.val).ok
        THEN Ok(id.val)
        ELSE Err(ValidationError(UrlParseCode, None))

\* lines 95-106: url.split("youtu.be/").nth(1).and_then(|s| s.split('?').next())
ShortRule(url) ==
    LET id == UpTo(SplitSecond(url, ShortMarker), QMark)
    IN  IF id.some /\ validate_video_id(id.val).ok
        THEN Ok(id.val)
        ELSE Err(ValidationError(UrlParseCode, None))

\* mutant: when the watch rule fails, the short-link rule is tried as well
extract_id_from_url_Fallback(raw) ==
    LET url == Trim(raw)
    IN  IF Contains(url, WatchMarker) /\ WatchRule(url).ok THEN WatchRule(url)
        ELSE IF Contains(url, ShortMarker) THEN ShortRule(url)
        ELSE IF Contains(url, WatchMarker) THEN WatchRule(url)
        ELSE Err(ValidationError(UnsupportedCode, None))

extract_id_from_url(raw) ==
    LET url == Trim(raw)
    IN  IF Contains(url, WatchMarker) THEN WatchRule(url)
        ELSE IF Contains(url, ShortMarker) THEN ShortRule(url)
        ELSE Err(ValidationError(UnsupportedCode, None))

-----------------------------------------------------------------------------
(* Inputs of the extractor: URLs assembled from a head, a path segment and *)
(* a list of query parameters, with optional surrounding whitespace        *)

MaxParams == 2

Id1 == <<"d","Q","w","4","w","9","W","g","X","c","Q">>

Id2 == <<"A","b","3","-","_","x","Y","z","0","1","2">>

BadId == <<"s","h","o","r","t">>

Https == <<"h","t","t","p","s",":","/","/">>

WatchHead == Https \o <<"w","w","w",".">> \o WatchMarker

ShortHead == Https \o ShortMarker

OtherHead == Https \o <<"e","x","a","m","p","l","e",".","c","o","m","/","v","i","d","e","o">>

HeadOf(kind) ==
    CASE kind = "watch" -> WatchHead
      [] kind = "short" -> ShortHead
      [] OTHER -> OtherHead

\* a query parameter is a [name, value] pair
Param(name, value) == [name |-> name, value |-> value]

ParamMenu ==
    { Param(<<"v">>, Id1),
      Param(<<"v">>, Id2),
      Param(<<"v">>, BadId),
      Param(<<"t">>, <<"5">>),
      Param(<<"r","e","v">>, <<"1">>),
      Param(<<"l","i","s","t">>, ShortMarker \o Id2),
      Param(<<"f","e","a","t","u","r","e">>, WatchMarker) }

RECURSIVE JoinParams(_)
JoinParams(ps) ==
    IF ps = <<>> THEN <<>>
    ELSE Head(ps).name \o <<"=">> \o Head(ps).value
         \o (IF Len(ps) > 1 THEN Amp ELSE <<>>) \o JoinParams(Tail(ps))

UrlOf(sh) ==
    sh.pre \o HeadOf(sh.head) \o sh.seg
    \o (IF sh.params = <<>> THEN <<>> ELSE QMark \o JoinParams(sh.params))
    \o sh.post

ParamLists(n) == [1..n -> ParamMenu]

InitExtract ==
    /\ HandlerIdle
    /\ \E n \in 0..MaxParams :
         shape \in [ head   : {"watch", "short", "other"},
                     seg    : {<<>>, Id1, BadId},
                     params : ParamLists(n),
                     pre    : {<<>>, <<" ">>},
                     post   : {<<>>, <<"\n">>} ]
    /\ input = UrlOf(shape)
    /\ output = None

Extract ==
    /\ output = None
    /\ output' = Some(extract_id_from_url(input))
    /\ UNCHANGED <<handlerVars, input, shape>>

NextExtract == Extract

SpecExtract == InitExtract /\ [][NextExtract]_vars

\* an identifier as the data model defines it: 11 characters of [A-Za-z0-9_-]
IsVideoIdentifier(s) ==
    /\ Len(s) = IdLen
    /\ \A i \in 1..Len(s) : is_ascii_alphanumeric(s[i]) \/ s[i] \in {"-", "_"}

\* the positions of the parameters named v in a parameter list
VPositions(ps) == {i \in 1..Len(ps) : ps[i].name = <<"v">>}

\* C6 (as stated): for a watch-page URL whose query string holds the
\* parameter v (once) with a valid identifier as its value, the extractor
\* returns that value wherever the parameter stands among the others; for a
\* short-link URL whose path segment is a valid identifier it returns that
\* segment.
C6_ExtractsIdentifier ==
    output.some =>
        /\ (/\ shape.head = "watch"
            /\ shape.seg = <<>>
            /\ Cardinality(VPositions(shape.params)) = 1
            /\ \A i \in VPositions(shape.params) :
                   IsVideoIdentifier(shape.params[i].value))
           => \A i \in VPositions(shape.params) :
                  output.val = Ok(shape.params[i].value)
        /\ (shape.head = "short" /\ IsVideoIdentifier(shape.seg))
           => output.val = Ok(shape.seg)

\* C7: one pattern is tried, by priority. With neither marker the result is
\* the unsupported-URL error; with a marker it is an identifier or the
\* parse error; with the watch marker an accepted identifier is the text
\* after a "v=" (never the one after the short-link marker), and only
\* without the watch marker is it the text after the short-link marker.
C7_FirstPatternOnly ==
    output.some =>
        LET url   == Trim(input)
            watch == Contains(url, WatchMarker)
            short == Contains(url, ShortMarker)
            res   == output.val
        IN  /\ (~watch /\ ~short) =>
                res = Err(ValidationError(UnsupportedCode, None))
            /\ (watch \/ short) =>
                (res.ok \/ res = Err(ValidationError(UrlParseCode, None)))
            /\ res.ok => IsVideoIdentifier(res.val)
            /\ (watch /\ res.ok) => Contains(url, VParam \o res.val)
            /\ (~watch /\ short /\ res.ok) => Contains(url, ShortMarker \o res.val)

\* C7 witness: both markers present, the short-link marker followed by a
\* valid identifier, the watch rule failed and nothing else was tried
C7_Witness ==
    /\ output.some
    /\ Contains(Trim(input), WatchMarker)
    /\ Contains(Trim(input), ShortMarker \o Id2)
    /\ ~Contains(Trim(input), VParam \o Id2)
    /\ output.val = Err(ValidationError(UrlParseCode, None))

-----------------------------------------------------------------------------
(* format_views *)

DigitSeq == <<"0","1","2","3","4","5","6","7","8","9">>

DigitVal(c) == (CHOOSE i \in 1..10 : DigitSeq[i] = c) - 1

RECURSIVE DecimalOf(_)
\* u64::to_string
DecimalOf(n) ==
    IF n < 10 THEN <<DigitSeq[n + 1]>>
    ELSE DecimalOf(n \div 10) \o <<DigitSeq[(n % 10) + 1]>>

RECURSIVE StripZeros(_)
StripZeros(ds) ==
    IF Len(ds) > 1 /\ Head(ds) = "0" THEN StripZeros(Tail(ds)) ELSE ds

\* the digits of u64::MAX, 18446744073709551615
U64MaxDigits ==
    <<"1","8","4","4","6","7","4","4","0","7","3","7","0","9","5","5","1","6","1","5">>

RECURSIVE DigitsLeq(_, _)
\* a <= b for two digit strings of the same length
DigitsLeq(a, b) ==
    IF a = <<>> THEN TRUE
    ELSE IF Head(a) # Head(b) THEN DigitVal(Head(a)) < DigitVal(Head(b))
    ELSE DigitsLeq(Tail(a), Tail(b))

RECURSIVE ValueOf(_, _)
ValueOf(ds, acc) ==
    IF ds = <<>> THEN acc ELSE ValueOf(Tail(ds), acc * 10 + DigitVal(Head(ds)))

\* str::parse::<u64>(): an optional '+', then one or more ASCII digits, the
\* value not above u64::MAX
ParseU64(s) ==
    LET ds == IF s # <<>> /\ Head(s) = "+" THEN Tail(s) ELSE s
        sg == StripZeros(ds)
    IN  IF ds = <<>> \/ \E i \in 1..Len(ds) : ds[i] \notin Digit
        THEN Err("InvalidDigit")
        ELSE IF Len(sg) > Len(U64MaxDigits)
                \/ (Len(sg) = Len(U64MaxDigits) /\ ~DigitsLeq(sg, U64MaxDigits))
        THEN Err("PosOverflow")
        ELSE Ok(ValueOf(sg, 0))

Thousand == 1000

Million == 1000000

Billion == 1000000000

RECURSIVE FloorLog2(_)
FloorLog2(q) == IF q < 2 THEN 0 ELSE 1 + FloorLog2(q \div 2)

\* 2^p mod 20 for p >= 2
Pow2Mod20(p) ==
    CASE p % 4 = 2 -> 4
      [] p % 4 = 3 -> 8
      [] p % 4 = 0 -> 16
      [] OTHER -> 12

\* The tenths shown by format!("{:.1}", n as f64 / d as f64), for n < 2^53
\* (n as f64 is then exact) and d one of the three thresholds.  The division
\* yields the double nearest to n/d, and the formatter rounds the exact value
\* of that double to one decimal, ties to even.  Write n/d = q + t/10 + rest/d
\* with rest < d/10.  Unless rest = d/20 the double lies on the same side of
\* the rounding boundary as n/d.  When rest = d/20, n/d = q + j/20 with
\* j = 2t+1: for j in {5, 15} it is a double (a true tie, to even); otherwise
\* the double nearest to it, which has 52 - FloorLog2(q) fraction bits, lies
\* above it exactly when (j * 2^p) mod 20 > 10.
TenthsF64(n, d) ==
    LET q    == n \div d
        unit == d \div 10
        t    == (n % d) \div unit
        rest == (n % d) % unit
        half == unit \div 2
        T    == 10 * q + t
        j    == 2 * t + 1
        p    == 52 - FloorLog2(q)
    IN  IF rest < half THEN T
        ELSE IF rest > half THEN T + 1
        ELSE IF j % 5 = 0 THEN (IF t % 2 = 0 THEN T ELSE T + 1)
        ELSE IF (j * Pow2Mod20(p)) % 20 > 10 THEN T + 1
        ELSE T

\* a number of tenths written with one decimal digit
RenderTenths(T) == DecimalOf(T \div 10) \o <<".">> \o <<DigitSeq[(T % 10) + 1]>>

DotZero == <<".", "0">>

EndsWith(s, suf) == Len(s) >= Len(suf) /\ SubSeq(s, Len(s) - Len(suf) + 1, Len(s)) = suf

RECURSIVE TrimEndMatches(_, _)
\* str::trim_end_matches: the suffix is removed as often as it matches
TrimEndMatches(s, suf) ==
    IF EndsWith(s, suf) THEN TrimEndMatches(SubSeq(s, 1, Len(s) - Len(suf)), suf)
    ELSE s

\* lines 59-61
Scaled(n, d, suffix) == TrimEndMatches(RenderTenths(TenthsF64(n, d)), DotZero) \o suffix

\* mutant: the thresholds are compared with > instead of >=
format_views_StrictThresholds(views) ==
    LET num == ParseU64(views)
    IN  IF ~num.ok THEN views
        ELSE IF num.val > Billion THEN Scaled(num.val, Billion, <<"B">>)
        ELSE IF num.val > Million THEN Scaled(num.val, Million, <<"M">>)
        ELSE IF num.val > Thousand THEN Scaled(num.val, Thousand, <<"K">>)
        ELSE DecimalOf(num.val)

format_views(views) ==
    LET num == ParseU64(views)
    IN  IF ~num.ok THEN views
        ELSE IF num.val >= Billion THEN Scaled(num.val, Billion, <<"B">>)
        ELSE IF num.val >= Million THEN Scaled(num.val, Million, <<"M">>)
        ELSE IF num.val >= Thousand THEN Scaled(num.val, Thousand, <<"K">>)
        ELSE DecimalOf(num.val)

-----------------------------------------------------------------------------
(* Inputs of format_views: decimal strings near multiples of the thresholds, *)
(* with and without a prefix, and strings that are no number; the model's    *)
(* integers are 32-bit, so the numeric inputs stay below 2^31                *)

MaxMantissa == 2000

\* the numbers at and just below m * s, and at and just below the rounding
\* boundary under it
ViewNumbers(m, s) ==
    { n \in { m * s + dlt : dlt \in {0, -1, -(s \div 20), -(s \div 20) - 1} } : n >= 0 }

ViewPrefixes == {<<>>, <<"+">>, <<"0">>, <<"-">>}

\* strings that do not parse, the last two because they exceed u64::MAX
ViewJunk ==
    { <<>>, <<"+">>, <<"a","b","c">>, <<"1","2",".","5">>, <<"1","a">>,
      <<" ","7">>, <<"1",",","0","0","0">>, <<"1","K">>, <<"+","-","1">>,
      SubSeq(U64MaxDigits, 1, 19) \o <<"6">>, <<"9">> \o U64MaxDigits }

InitViews ==
    /\ HandlerIdle
    /\ \/ \E m \in 0..MaxMantissa, s \in {1, Thousand, Million}, pre \in ViewPrefixes :
            \E n \in ViewNumbers(m, s) : input = pre \o DecimalOf(n)
       \/ input \in ViewJunk
    /\ output = None
    /\ shape = <<>>

FormatViews ==
    /\ output = None
    /\ output' = Some(format_views(input))
    /\ UNCHANGED <<handlerVars, input, shape>>

NextViews == FormatViews

SpecViews == InitViews /\ [][NextViews]_vars

\* the reference of C8: one trailing ".0" removed
StripOnce(s) == IF EndsWith(s, DotZero) THEN SubSeq(s, 1, Len(s) - 2) ELSE s

\* the reference of C8: the tenths nearest to n/d (both neighbours at a tie)
NearestTenths(n, d) ==
    LET unit == d \div 10
        T    == n \div unit
        rest == n % unit
    IN  { c \in {T, T + 1} : \/ c = T /\ 2 * rest <= unit
                             \/ c = T + 1 /\ 2 * rest >= unit }

\* the reference of C8: the outputs the claim allows for an input string
RefViews(views) ==
    LET num == ParseU64(views)
        n   == num.val
        d   == IF n >= Billion THEN Billion
               ELSE IF n >= Million THEN Million ELSE Thousand
        suf == IF d = Billion THEN <<"B">>
               ELSE IF d = Million THEN <<"M">> ELSE <<"K">>
    IN  IF ~num.ok THEN {views}
        ELSE IF n < Thousand THEN {DecimalOf(n)}
        ELSE {StripOnce(RenderTenths(T)) \o suf : T \in NearestTenths(n, d)}

ShownInteger(out) == SplitFirst(SubSeq(out, 1, Len(out) - 1), <<".">>)

\* C10 (as stated): for a number of at least 1000 the value displayed in
\* front of a K or M suffix is at least 1 and strictly below 1000.
C10_DisplayedBelowThousand ==
    (output.some /\ ParseU64(input).ok /\ ParseU64(input).val >= Thousand
       /\ output.val[Len(output.val)] \in {"K", "M"})
    => /\ Len(ShownInteger(output.val)) <= 3
       /\ ShownInteger(output.val) # <<"0">>

-----------------------------------------------------------------------------
(* The caption text mapping of the assembly step, and seconds_to_timestamp *)

SpeakerMarker == <<">", ">", " ">>

\* mutant: only the first occurrence is removed (replacen(.., 1))
clean_caption_text_FirstOnly(text) ==
    LET i == Find(text, SpeakerMarker)
    IN  IF i = 0 THEN text
        ELSE SubSeq(text, 1, i - 1) \o Drop(text, i + Len(SpeakerMarker))

\* snippet.text.replace(">> ", "")
clean_caption_text(text) == Replace(text, SpeakerMarker)

\* format!("{:02}", n)
Pad2(n) == IF n < 10 THEN <<"0">> \o DecimalOf(n) ELSE DecimalOf(n)

\* seconds is an f64, given in tenths of a second; `as u64` truncates toward
\* zero and maps a negative value to 0
seconds_to_timestamp(tenths) ==
    LET total == IF tenths < 0 THEN 0 ELSE tenths \div 10
        hours == total \div 3600
        mins  == (total % 3600) \div 60
        secs  == total % 60
    IN  IF hours > 0
        THEN Pad2(hours) \o <<":">> \o Pad2(mins) \o <<":">> \o Pad2(secs)
        ELSE Pad2(mins) \o <<":">> \o Pad2(secs)

MaxTextLen == 6

TextChars == {">", " ", "h"}

InitClean ==
    /\ HandlerIdle
    /\ \E n \in 0..MaxTextLen : input \in [1..n -> TextChars]
    /\ output = None
    /\ shape = <<>>

CleanText ==
    /\ output = None
    /\ output' = Some(clean_caption_text(input))
    /\ UNCHANGED <<handlerVars, input, shape>>

NextClean == CleanText

SpecClean == InitClean /\ [][NextClean]_vars

\* the positions of s covered by an occurrence of pat
Covered(s, pat) ==
    {i \in 1..Len(s) : \E k \in 1..Len(s) : MatchAt(s, pat, k) /\ k <= i /\ i < k + Len(pat)}

RECURSIVE KeepFrom(_, _, _)
KeepFrom(s, drop, i) ==
    IF i > Len(s) THEN <<>>
    ELSE (IF i \in drop THEN <<>> ELSE <<s[i]>>) \o KeepFrom(s, drop, i + 1)

\* s with every occurrence of pat deleted
DeleteOccurrences(s, pat) == KeepFrom(s, Covered(s, pat), 1)

\* C9 (as stated): the cleaned text contains no occurrence of the marker and
\* is the input with the marker's occurrences deleted.
C9_NoMarkerLeft ==
    output.some =>
        /\ ~Contains(output.val, SpeakerMarker)
        /\ output.val = DeleteOccurrences(input, SpeakerMarker)

\* C9 (amended): the cleaned text is the input with every occurrence of the
\* marker ">> " deleted; nothing is said about markers the deletion brings
\* together.
C9_OccurrencesDeleted ==
    output.some => output.val = DeleteOccurrences(input, SpeakerMarker)

\* C9 witness: ">> >> " was cleaned to the empty text, two occurrences deleted
C9_Witness ==
    /\ input = <<">", ">", " ", ">", ">", " ">>
    /\ output = Some(<<>>)

-----------------------------------------------------------------------------
(* The request handler yt *)

BAD_REQUEST == 400

INTERNAL_SERVER_ERROR == 500

ConflictText == "Cannot provide both video_id and video_url. Use one or the other."

MissingText == "Must provide either video_id or video_url."

\* a message is [text, args]: the literal text and the formatted arguments
Message(text, args) == [text |-> text, args |-> args]

\* Err((status, message))
ErrorResponse(status, message) ==
    [kind |-> "err", status |-> status, message |-> message]

\* lines 157-164 and 169-176: e.message, or e.code when there is none
ValidationMessage(e) ==
    IF e.message.some THEN e.message.val ELSE Message(e.code, <<>>)

\* a call to the transcript provider, with its argument and its outcome
Call(op, id, ok) == [op |-> op, id |-> id, ok |-> ok]

\* the identifiers and URLs requests carry
BadChars == <<"d","Q","w","4","w","!","W","g","X","c","?">>

TenWithAccent == <<"d","Q","w","4","w","9","W","g","X","U+00E9">>

IdSamples == {Id1, BadId, BadChars, TenWithAccent}

UrlSamples ==
    { UrlOf([head |-> "watch", seg |-> <<>>, pre |-> <<>>, post |-> <<>>,
             params |-> <<Param(<<"v">>, Id1), Param(<<"t">>, <<"5">>)>>]),
      UrlOf([head |-> "watch", seg |-> <<>>, pre |-> <<" ">>, post |-> <<"\n">>,
             params |-> <<Param(<<"v">>, BadId)>>]),
      UrlOf([head |-> "watch", seg |-> <<>>, pre |-> <<>>, post |-> <<>>,
             params |-> <<Param(<<"l","i","s","t">>, ShortMarker \o Id2)>>]),
      UrlOf([head |-> "short", seg |-> Id2, pre |-> <<" ">>, post |-> <<>>,
             params |-> <<Param(<<"t">>, <<"5">>)>>]),
      UrlOf([head |-> "short", seg |-> BadChars, pre |-> <<>>, post |-> <<>>,
             params |-> <<>>]),
      UrlOf([head |-> "other", seg |-> <<>>, pre |-> <<>>, post |-> <<>>,
             params |-> <<>>]) }

Payloads ==
    [ video_id  : {None} \cup {Some(x) : x \in IdSamples},
      video_url : {None} \cup {Some(x) : x \in UrlSamples} ]

\* what the provider can answer: error texts, caption parts (start and
\* duration in tenths of a second) and video details
ProviderErrors == {"VideoUnavailable", "TranscriptsDisabled"}

Snippet(start, duration, text) == [start |-> start, duration |-> duration, text |-> text]

TranscriptSamples ==
    { <<>>,
      << Snippet(50, 20, <<">", ">", " ", "h", "i">>) >>,
      << Snippet(659, 15, <<"h">>), Snippet(36610, 20, <<">", ">", ">", ">", " ", " ">>) >> }

DetailsSamples ==
    { [title |-> "T", author |-> "A", view_count |-> <<"2","5","0","0","0","0","0">>],
      [title |-> "U", author |-> "B", view_count |-> <<"a","b","c">>] }

Init ==
    /\ payload \in Payloads
    /\ has_proxy \in BOOLEAN
    /\ pc = "start"
    /\ video_id = None
    /\ api = FALSE
    /\ transcript = None
    /\ details = None
    /\ response = None
    /\ calls = <<>>
    /\ input = <<>>
    /\ output = None
    /\ shape = <<>>

\* return Err(..): the request ends with an error response
Fail(status, message) ==
    /\ response' = Some(ErrorResponse(status, message))
    /\ pc' = "done"

\* mutant: the identifier is validated before the other field is looked at
Resolve_ValidateFirst ==
    /\ pc = "start"
    /\ IF payload.video_id.some
       THEN LET r == validate_video_id(payload.video_id.val)
            IN  IF ~r.ok
                THEN Fail(BAD_REQUEST, ValidationMessage(r.err)) /\ UNCHANGED video_id
                ELSE IF payload.video_url.some
                THEN Fail(BAD_REQUEST, Message(ConflictText, <<>>)) /\ UNCHANGED video_id
                ELSE /\ video_id' = payload.video_id
                     /\ pc' = "resolved"
                     /\ UNCHANGED response
       ELSE IF ~payload.video_url.some
       THEN Fail(BAD_REQUEST, Message(MissingText, <<>>)) /\ UNCHANGED video_id
       ELSE LET r == extract_id_from_url(payload.video_url.val)
            IN  IF ~r.ok
                THEN Fail(BAD_REQUEST, ValidationMessage(r.err)) /\ UNCHANGED video_id
                ELSE /\ video_id' = Some(r.val)
                     /\ pc' = "resolved"
                     /\ UNCHANGED response
    /\ UNCHANGED <<payload, has_proxy, api, transcript, details, calls, fnVars>>

\* lines 142-178: the match on (video_id, video_url)
Resolve ==
    /\ pc = "start"
    /\ CASE payload.video_id.some /\ payload.video_url.some ->
              Fail(BAD_REQUEST, Message(ConflictText, <<>>)) /\ UNCHANGED video_id
         [] ~payload.video_id.some /\ ~payload.video_url.some ->
              Fail(BAD_REQUEST, Message(MissingText, <<>>)) /\ UNCHANGED video_id
         [] payload.video_id.some /\ ~payload.video_url.some ->
              LET r == validate_video_id(payload.video_id.val)
              IN  IF ~r.ok
                  THEN Fail(BAD_REQUEST, ValidationMessage(r.err)) /\ UNCHANGED video_id
                  ELSE /\ video_id' = payload.video_id
                       /\ pc' = "resolved"
                       /\ UNCHANGED response
         [] OTHER ->
              LET r == extract_id_from_url(payload.video_url.val)
              IN  IF ~r.ok
                  THEN Fail(BAD_REQUEST, ValidationMessage(r.err)) /\ UNCHANGED video_id
                  ELSE /\ video_id' = Some(r.val)
                       /\ pc' = "resolved"
                       /\ UNCHANGED response
    /\ UNCHANGED <<payload, has_proxy, api, transcript, details, calls, fnVars>>

\* lines 181-201: YouTubeTranscriptApi::new(None, proxy_config, None)
NewApi ==
    /\ pc = "resolved"
    /\ \E r \in {Ok(<<>>)} \cup {Err(e) : e \in ProviderErrors} :
         /\ calls' = Append(calls, Call("new", <<>>, r.ok))
         /\ IF r.ok
            THEN /\ api' = TRUE
                 /\ pc' = "api"
                 /\ UNCHANGED response
            ELSE /\ Fail(INTERNAL_SERVER_ERROR, Message("API init error: {}", <<r.err>>))
                 /\ UNCHANGED api
    /\ UNCHANGED <<payload, has_proxy, video_id, transcript, details, fnVars>>

\* mutant: a failed transcript fetch leaves the handler where it was, to try again
FetchTranscript_Retry ==
    /\ pc = "api"
    /\ \E r \in {Ok(t) : t \in TranscriptSamples} \cup {Err(e) : e \in ProviderErrors} :
         /\ calls' = Append(calls, Call("fetch_transcript", video_id.val, r.ok))
         /\ IF r.ok
            THEN /\ transcript' = Some(r.val)
                 /\ pc' = "transcript"
            ELSE /\ Len(calls) < 3
                 /\ UNCHANGED <<transcript, pc>>
    /\ UNCHANGED <<payload, has_proxy, video_id, api, details, response, fnVars>>

\* lines 204-212: api.fetch_transcript(&video_id, &["en"], false).await
FetchTranscript ==
    /\ pc = "api"
    /\ \E r \in {Ok(t) : t \in TranscriptSamples} \cup {Err(e) : e \in ProviderErrors} :
         /\ calls' = Append(calls, Call("fetch_transcript", video_id.val, r.ok))
         /\ IF r.ok
            THEN /\ transcript' = Some(r.val)
                 /\ pc' = "transcript"
                 /\ UNCHANGED response
            ELSE /\ Fail(INTERNAL_SERVER_ERROR,
                         Message("Transcript error (proxy={}): {}",
                                 <<IF has_proxy THEN "true" ELSE "false", r.err>>))
                 /\ UNCHANGED transcript
    /\ UNCHANGED <<payload, has_proxy, video_id, api, details, fnVars>>

\* lines 220-228: one TranscriptSnippet per caption part, in the provider's order
Snippets(parts) ==
    [i \in 1..Len(parts) |->
        [start    |-> seconds_to_timestamp(parts[i].start),
         duration |-> parts[i].duration,
         text     |-> clean_caption_text(parts[i].text)]]

\* lines 232-238: Ok(Json(YTResponse {..}))
OkResponse(id, parts, d) ==
    [kind       |-> "ok",
     id         |-> id,
     title      |-> d.title,
     author     |-> d.author,
     views      |-> format_views(d.view_count),
     transcript |-> Snippets(parts)]

\* mutant: a failed details fetch answers with the transcript and empty details
FetchDetails_Partial ==
    /\ pc = "transcript"
    /\ \E r \in {Ok(d) : d \in DetailsSamples} \cup {Err(e) : e \in ProviderErrors} :
         /\ calls' = Append(calls, Call("fetch_video_details", video_id.val, r.ok))
         /\ IF r.ok
            THEN /\ details' = Some(r.val)
                 /\ pc' = "details"
                 /\ UNCHANGED response
            ELSE /\ response' = Some(OkResponse(video_id.val, transcript.val,
                                   [title |-> "", author |-> "", view_count |-> <<>>]))
                 /\ pc' = "done"
                 /\ UNCHANGED details
    /\ UNCHANGED <<payload, has_proxy, video_id, api, transcript, fnVars>>

\* lines 215-218: api.fetch_video_details(&video_id).await
FetchDetails ==
    /\ pc = "transcript"
    /\ \E r \in {Ok(d) : d \in DetailsSamples} \cup {Err(e) : e \in ProviderErrors} :
         /\ calls' = Append(calls, Call("fetch_video_details", video_id.val, r.ok))
         /\ IF r.ok
            THEN /\ details' = Some(r.val)
                 /\ pc' = "details"
                 /\ UNCHANGED response
            ELSE /\ Fail(INTERNAL_SERVER_ERROR, Message("{}", <<r.err>>))
                 /\ UNCHANGED details
    /\ UNCHANGED <<payload, has_proxy, video_id, api, transcript, fnVars>>

\* lines 220-238: the response is assembled and returned
Assemble ==
    /\ pc = "details"
    /\ response' = Some(OkResponse(video_id.val, transcript.val, details.val))
    /\ pc' = "done"
    /\ UNCHANGED <<payload, has_proxy, video_id, api, transcript, details, calls, fnVars>>

Next ==
    \/ Resolve
    \/ NewApi
    \/ FetchTranscript
    \/ FetchDetails
    \/ Assemble

Spec == Init /\ [][Next]_vars

-----------------------------------------------------------------------------
(* Properties of the handler *)

OneOp(i, op) == Len(calls) >= i => calls[i].op = op

\* the calls that carry an identifier
IdCalls == {i \in 1..Len(calls) : calls[i].op # "new"}

IsOk == response.some /\ response.val.kind = "ok"

IsErr == response.some /\ response.val.kind = "err"

\* C1: every identifier handed to fetch_transcript or fetch_video_details,
\* and the id of every returned summary, is 11 characters of [A-Za-z0-9_-].
C1_OnlyValidIdsDownstream ==
    /\ \A i \in IdCalls : IsVideoIdentifier(calls[i].id)
    /\ IsOk => IsVideoIdentifier(response.val.id)

\* C1 witness: a summary was returned for an identifier taken from a URL
C1_Witness ==
    /\ IsOk
    /\ payload.video_url.some
    /\ Len(calls) = 3
    /\ calls[2].id = response.val.id

\* C2: with both fields present the request fails with the conflict error,
\* with neither with the missing-input error, whatever the fields hold, and
\* the provider is never touched.
C2_BothOrNeither ==
    LET both    == payload.video_id.some /\ payload.video_url.some
        neither == ~payload.video_id.some /\ ~payload.video_url.some
    IN  /\ (both \/ neither) =>
             /\ calls = <<>>
             /\ ~api
             /\ pc \in {"start", "done"}
             /\ ~video_id.some
        /\ (both /\ pc = "done") =>
             response = Some(ErrorResponse(BAD_REQUEST, Message(ConflictText, <<>>)))
        /\ (neither /\ pc = "done") =>
             response = Some(ErrorResponse(BAD_REQUEST, Message(MissingText, <<>>)))

\* C2 witness: both fields present, the identifier not even valid, and the
\* request ended with the conflict error
C2_Witness ==
    /\ payload.video_id = Some(BadChars)
    /\ payload.video_url.some
    /\ pc = "done"
    /\ response.val.message.text = ConflictText

\* C3: the provider is called in the order new, fetch_transcript,
\* fetch_video_details, each at most once; the client is built only for a
\* resolved identifier, each fetch follows the success of the step before
\* it, and a summary is assembled only after the details fetch succeeded.
C3_StepOrder ==
    /\ Len(calls) <= 3
    /\ OneOp(1, "new") /\ OneOp(2, "fetch_transcript") /\ OneOp(3, "fetch_video_details")
    /\ calls # <<>> => video_id.some
    /\ \A i \in 2..Len(calls) : calls[i - 1].ok
    /\ \A i \in IdCalls : calls[i].id = video_id.val
    /\ IsOk => (Len(calls) = 3 /\ calls[3].ok)

\* C3 witness: all three provider calls were made
C3_Witness == Len(calls) = 3 /\ pc = "done"

\* C4: a summary is returned only when all four steps succeeded, and it is
\* built from their results; when a step fails the request ends at once with
\* an error that is a status and a message, the message holding nothing but
\* the error's text.
C4_NoPartialResults ==
    /\ IsOk =>
         /\ video_id.some /\ transcript.some /\ details.some
         /\ Len(calls) = 3 /\ \A i \in 1..3 : calls[i].ok
         /\ response.val = OkResponse(video_id.val, transcript.val, details.val)
    /\ IsErr =>
         /\ DOMAIN response.val = {"kind", "status", "message"}
         /\ response.val.status \in {BAD_REQUEST, INTERNAL_SERVER_ERROR}
         /\ (calls # <<>> =>
               \A i \in 1..Len(response.val.message.args) :
                   response.val.message.args[i] \in ProviderErrors \cup {"true", "false"})
    /\ (\E i \in 1..Len(calls) : ~calls[i].ok) => (IsErr /\ pc = "done")
    /\ (pc = "done" /\ ~video_id.some) => IsErr
    /\ pc = "done" <=> response.some

\* C4 witness: the transcript was fetched, the details fetch failed, and the
\* request ended with an error
C4_Witness ==
    /\ transcript.some
    /\ Len(calls) = 3 /\ ~calls[3].ok
    /\ IsErr

=============================================================================
